---- MODULE Spec2Model ----
(***************************************************************************)
(* Model of the bag3_digital generators:                                   *)
(*   schematic/des_1toN.py                 bag3_digital__des_1toN.design   *)
(*   layout/stdcells/current_starved_inv.py CurrentStarvedInvCore          *)
(*   layout/stdcells/inv_diff.py           InvDiffCore,                    *)
(*                                         CurrentStarvedInvDiffCore       *)
(*   layout/stdcells/inv_diff_chain.py     InvDiffChain                    *)
(*                                                                         *)
(* One generator object is constructed with its parameters (Init) and its  *)
(* design / draw_layout method runs once (one action per method).  The     *)
(* state holds what the method has done on the object when it returned or  *)
(* raised: pins, instances, placed devices, wires, cell size, sch_params.  *)
(* Calls into the layout/schematic framework (add_mos, connect_to_tracks,  *)
(* add_pin, array_instance, ...) are modelled by their effect on these     *)
(* collections and return normally.                                        *)
(***************************************************************************)
EXTENDS Integers, Sequences, FiniteSets, TLC

VARIABLES cls, params, status, err, pins, instances, placed, wires,
          mos_size, sch_params

vars == <<cls, params, status, err, pins, instances, placed, wires,
          mos_size, sch_params>>

(* ------------------------------ bounds --------------------------------- *)
MaxNegDesRatio == 2
MaxDesRatio == 4
MaxSeg == 1
MaxLength == 3
MaxSepCol == 2
MaxTopLayer == 3
MaxTrack == 1

(* ------------------------------ helpers -------------------------------- *)
(* an attribute that has not been assigned yet is <<>>, an assigned one <<v>> *)
Unset == <<>>
Assigned(v) == <<v>>

(* routing track indices: a user value from sig_locs, a track computed by   *)
(* the framework (named by what it was computed from), or Python None       *)
Track(base, off) == [base |-> base, off |-> off]
UserTrack(n) == Track("sig_locs", n)
None == Track("None", 0)
NoError == [type |-> "none", msg |-> ""]

(* a raised Python exception *)
Exception(type, msg) == [type |-> type, msg |-> msg]

Max(a, b) == IF a >= b THEN a ELSE b

(* Python range(a, b) as a sequence *)
range(a, b) == [i \in 1..Max(b - a, 0) |-> a + i - 1]

(* ---- schematic: des_1toN ---- *)

(* template of des_1toN.yaml as far as design() relies on it: the pin      *)
(* 'dout' and the instances XFF, XFS, XINVC, XINVD                         *)
TemplateInst == [conns |-> <<>>, designed |-> FALSE]

TemplateInstances ==
    [n \in {"XFF", "XFS", "XINVC", "XINVD"} |-> TemplateInst]

TemplatePins == {[name |-> "dout", type |-> "output"]}

(* Module.instances[name].design with keyword arguments *)
design_instance(insts, name) ==
    [insts EXCEPT ![name].designed = TRUE]

(* Module.reconnect_instance_terminal(inst_name, term_name, net_name) *)
reconnect_instance_terminal(insts, name, term, net) ==
    [insts EXCEPT ![name].conns = (term :> net) @@ @]

(* Module.rename_pin(old, new) *)
rename_pin(ps, old, new) ==
    {IF p.name = old THEN [p EXCEPT !.name = new] ELSE p : p \in ps}

(* Module.add_pin(name, term_type) *)
sch_add_pin(ps, name, type) ==
    ps \cup {[name |-> name, type |-> type]}

(* terminal list [(term, net), ...] applied on top of existing connections *)
RECURSIVE apply_terms(_, _)
apply_terms(conns, terms) ==
    IF terms = <<>> THEN conns
    ELSE apply_terms((terms[1][1] :> terms[1][2]) @@ conns, Tail(terms))

(* Module.array_instance(inst_name, inst_term_list=...) *)
array_instance(insts, name, inst_term_list) ==
    LET base == insts[name]
        new_names == {inst_term_list[k][1] : k \in DOMAIN inst_term_list}
        entry(n) == CHOOSE k \in DOMAIN inst_term_list : inst_term_list[k][1] = n
        kept == DOMAIN insts \ {name}
    IN  [n \in kept \cup new_names |->
            IF n \in new_names
            THEN [base EXCEPT !.conns = apply_terms(@, inst_term_list[entry(n)][2])]
            ELSE insts[n]]

des_ratio_invalid_mut(des_ratio) == des_ratio < 1

(* des_1toN.py line 88 *)
des_ratio_invalid(des_ratio) == des_ratio < 2

(* des_1toN.py line 91: f'<{des_ratio - 1}:0>' *)
suf(des_ratio) == "<" \o ToString(des_ratio - 1) \o ":0>"

fast_entry_mut(idx) ==
    <<"XFF" \o ToString(idx),
      << <<"out", "d<" \o ToString(idx) \o ">">>,
         <<"in", IF idx # 0 THEN "d<" \o ToString(idx) \o ">" ELSE "din">> >> >>

(* des_1toN.py line 96 *)
fast_entry(idx) ==
    <<"XFF" \o ToString(idx),
      << <<"out", "d<" \o ToString(idx) \o ">">>,
         <<"in", IF idx # 0 THEN "d<" \o ToString(idx - 1) \o ">" ELSE "din">> >> >>

(* des_1toN.py line 97 *)
slow_entry(idx) ==
    <<"XFS" \o ToString(idx),
      << <<"out", "dout<" \o ToString(idx) \o ">">>,
         <<"in", "d<" \o ToString(idx) \o ">">> >> >>

fast_list_mut(des_ratio) ==
    LET r == range(0, des_ratio - 1) IN [k \in DOMAIN r |-> fast_entry(r[k])]

(* des_1toN.py lines 94-97 *)
fast_list(des_ratio) ==
    LET r == range(0, des_ratio) IN [k \in DOMAIN r |-> fast_entry(r[k])]

slow_list(des_ratio) ==
    LET r == range(0, des_ratio) IN [k \in DOMAIN r |-> slow_entry(r[k])]

export_pins_mut(ps, des_ratio, export_nets) ==
    sch_add_pin(sch_add_pin(sch_add_pin(ps,
        "d" \o suf(des_ratio), "output"), "clkb", "output"),
        "clk_divb", "output")

(* des_1toN.py lines 102-105 *)
export_pins(ps, des_ratio, export_nets) ==
    IF export_nets
    THEN sch_add_pin(sch_add_pin(sch_add_pin(ps,
             "d" \o suf(des_ratio), "output"), "clkb", "output"),
             "clk_divb", "output")
    ELSE ps

(* bag3_digital__des_1toN.design *)
des_1toN_design ==
    /\ cls = "des_1toN"
    /\ status = "new"
    /\ LET des_ratio == params.des_ratio
           export_nets == params.export_nets
           i1 == design_instance(instances, "XFF")
           i2 == reconnect_instance_terminal(i1, "XFF", "clkb", "clkb")
           i3 == design_instance(i2, "XFS")
           i4 == reconnect_instance_terminal(i3, "XFS", "clkb", "clk_divb")
           i5 == design_instance(design_instance(i4, "XINVC"), "XINVD")
       IN  IF des_ratio_invalid(des_ratio)
           THEN /\ instances' = i5
                /\ err' = Exception("ValueError", "des_ratio=" \o ToString(des_ratio)
                                        \o " has to be greater than 1.")
                /\ status' = "raised"
                /\ pins' = pins
           ELSE LET p1 == rename_pin(pins, "dout", "dout" \o suf(des_ratio))
                    i6 == array_instance(i5, "XFF", fast_list(des_ratio))
                    i7 == array_instance(i6, "XFS", slow_list(des_ratio))
                IN  /\ instances' = i7
                    /\ pins' = export_pins(p1, des_ratio, export_nets)
                    /\ err' = NoError
                    /\ status' = "done"
    /\ UNCHANGED <<cls, params, placed, wires, mos_size, sch_params>>


(* ---- layout: common framework effects ---- *)

(* the template before draw_layout has done anything *)
EmptyLayout ==
    [err |-> NoError, placed |-> <<>>, wires |-> {}, pins |-> {},
     mos_size |-> Unset, sch_params |-> Unset]

(* MOSBase.add_mos / add_tile / add_substrate_contact: one placed block *)
Block(kind, master, row, col, seg, stack, flip_lr) ==
    [kind |-> kind, master |-> master, row |-> row, col |-> col,
     seg |-> seg, stack |-> stack, flip_lr |-> flip_lr]

(* TemplateBase.connect_to_tracks / connect_wires: a new wire *)
Wire(name, layer, tidx, src) ==
    [name |-> name, layer |-> layer, tidx |-> tidx, src |-> src]

(* TemplateBase.add_pin / reexport *)
Pin(name, warr, layer, hide) ==
    [name |-> name, warr |-> warr, layer |-> layer, hide |-> hide]

(* dict.get(key, default) *)
get(d, key, default) == IF key \in DOMAIN d THEN d[key] ELSE default

(* MOSBase.get_track_index(ridx, wire_type, wire_name='sig', wire_idx) *)
get_track_index(row, wire_type, wire_idx) ==
    Track(wire_type \o "@" \o row, wire_idx)

(* instance.get_pin(name) of a placed master: the pin record of the master *)
get_pin(master, name) == CHOOSE p \in master.pins : p.name = name

(* ---- layout: CurrentStarvedInvCore ---- *)

(* current_starved_inv.py lines 57-78 *)
csi_default_param_values ==
    [seg_inv |-> -1, seg_mir |-> 1, seg_p |-> -1, seg_n |-> -1,
     stack_p |-> 1, stack_n |-> 1, w_p |-> 0, w_n |-> 0,
     is_guarded |-> FALSE, sig_locs |-> <<>>, vertical_out |-> TRUE,
     vertical_sup |-> TRUE, vertical_in |-> TRUE]

eff_seg_mut(seg, seg_inv) == IF seg < 0 THEN seg_inv ELSE seg

(* current_starved_inv.py lines 106-109 *)
eff_seg(seg, seg_inv) == IF seg <= 0 THEN seg_inv ELSE seg

(* current_starved_inv.py line 110 *)
invalid_segments(seg_p, seg_n) == seg_p <= 0 \/ seg_n <= 0

top_layer_too_low_mut(top_layer, conn_layer) == top_layer < conn_layer + 1

(* current_starved_inv.py lines 113-115 *)
top_layer_too_low(top_layer, conn_layer) == top_layer < conn_layer + 2

(* current_starved_inv.py lines 124-128: the three transistors and the size *)
csi_placement(p, seg_p, seg_n) ==
    << Block("mos", "nmos", "ridx_n_mir", 0, p.seg_mir, 1, FALSE),
       Block("mos", "nmos", "ridx_n_inv", 0, seg_n, p.stack_n, FALSE),
       Block("mos", "pmos", "ridx_p", 0, seg_p, p.stack_p, FALSE) >>

(* MOSBase.set_mos_size() without argument: the columns in use *)
used_cols(blocks) ==
    LET ends == {blocks[k].col + blocks[k].seg * blocks[k].stack : k \in DOMAIN blocks}
    IN  CHOOSE m \in ends : \A e \in ends : m >= e

(* current_starved_inv.py lines 176-183: input track in unguarded mode *)
unguarded_in_tidx(sig_locs) ==
    LET in_tidx == get(sig_locs, "in", None)
    IN  IF in_tidx = None
        THEN LET nin_tidx == get(sig_locs, "nin", None)
             IN  IF nin_tidx = None
                 THEN get(sig_locs, "pin", get_track_index("ridx_n_inv", "G", 0))
                 ELSE nin_tidx
        ELSE in_tidx

(* current_starved_inv.py lines 130-150: output wires and pin 'out' *)
csi_route_out(p, hm_layer, vm_layer) ==
    LET nout_tidx == get(p.sig_locs, "nout", get_track_index("ridx_n_inv", "DS_GATE", 1))
        pout_tidx == get(p.sig_locs, "pout", get_track_index("ridx_p", "DS_GATE", -1))
        pout == Wire("pout", hm_layer, pout_tidx, {"pports.d"})
        nout == Wire("nout", hm_layer, nout_tidx, {"nports_inv.d"})
        vm_tidx == IF p.vertical_out
                   THEN get(p.sig_locs, "out", Track("coord_to_track(pout.middle)", 0))
                   ELSE None
    IN  [vm_tidx |-> vm_tidx,
         wires |-> {pout, nout} \cup
                   (IF p.vertical_out
                    THEN {Wire("out", vm_layer, vm_tidx, {"pout", "nout"})}
                    ELSE {}),
         pins |-> IF p.vertical_out
                  THEN {Pin("out", {"out"}, vm_layer, FALSE)}
                  ELSE {Pin("out", {"pout", "nout"}, hm_layer, FALSE)}]

(* current_starved_inv.py lines 153-189: input wires and pins 'in','pin','nin' *)
csi_route_in(p, is_guarded, vm_tidx, hm_layer, vm_layer) ==
    IF is_guarded
    THEN LET nin_tidx == get(p.sig_locs, "nin", get_track_index("ridx_n_inv", "G", 0))
             pin_tidx == get(p.sig_locs, "pin", get_track_index("ridx_p", "G", -1))
             nin == Wire("nin", hm_layer, nin_tidx, {"nports_inv.g"})
             pin == Wire("pin", hm_layer, pin_tidx, {"pports.g"})
             found == IF vm_tidx # None
                      THEN Track("min(find_next_track(nin.lower),get_next_track(out))", 0)
                      ELSE Track("find_next_track(nin.lower)", 0)
             in_tidx == get(p.sig_locs, "in", found)
         IN  [wires |-> {nin, pin} \cup
                        (IF p.vertical_in
                         THEN {Wire("in", vm_layer, in_tidx, {"pin", "nin"})}
                         ELSE {}),
              pins |-> {Pin("pin", {"pin"}, hm_layer, TRUE),
                        Pin("nin", {"nin"}, hm_layer, TRUE),
                        IF p.vertical_in
                        THEN Pin("in", {"in"}, vm_layer, FALSE)
                        ELSE Pin("in", {"pin", "nin"}, hm_layer, FALSE)}]
    ELSE LET in_tidx == unguarded_in_tidx(p.sig_locs)
             in_warr == Wire("in_warr", hm_layer, in_tidx, {"nports_inv.g", "pports.g"})
         IN  [wires |-> {in_warr},
              pins |-> {Pin("in", {"in_warr"}, hm_layer, FALSE),
                        Pin("pin", {"in_warr"}, hm_layer, TRUE),
                        Pin("nin", {"in_warr"}, hm_layer, TRUE)}]

(* Python truth value of a track index (line 201): None and a user track 0 *)
(* are false; a track the grid computed is taken to be non-zero            *)
truthy(tidx) == tidx # None /\ ~(tidx.base = "sig_locs" /\ tidx.off = 0)

(* current_starved_inv.py lines 191-211: hidden output pins, ref_v, mirror  *)
(* tie; connect_through (lines 245-275) is called with connect_tidx, so its *)
(* own ValueError (line 265) cannot occur and it adds the one wire between  *)
(* the vertical wire ns and the mirror drain                                *)
csi_route_mirror(vm_tidx, pinfo, hm_layer, vm_layer) ==
    LET ns_tid == IF truthy(vm_tidx)
                  THEN Track("get_next_track(out)", 0)
                  ELSE Track("track_to_track(nports_mir.d)", 0)
    IN  [wires |-> {Wire("ref_v", hm_layer, get_track_index("ridx_n_mir", "G", 0),
                         {"nports_mir.g"}),
                    Wire("ns_tie", hm_layer, get_track_index("ridx_n_inv", "DS_GATE", 0),
                         {"nports_inv.s"}),
                    Wire("ns", vm_layer, ns_tid, {"ns_tie"}),
                    Wire("connect_through", hm_layer,
                         get_track_index("ridx_n_mir", "DS_GATE", 0),
                         {"nports_mir.d", "ns"})},
         pins |-> {Pin("pout", {"pout"}, hm_layer, TRUE),
                   Pin("nout", {"nout"}, hm_layer, TRUE),
                   Pin("ref_v", {"ref_v"}, hm_layer, FALSE)}]

vertical_sup_given_mut(vertical_sup) == TRUE

(* current_starved_inv.py line 215 *)
vertical_sup_given(vertical_sup) == vertical_sup

(* current_starved_inv.py lines 216-217 *)
csi_supply_pins(conn_layer) ==
    {Pin("VDD", {"pports.s"}, conn_layer, FALSE),
     Pin("VSS", {"nports_mir.s"}, conn_layer, FALSE)}

(* current_starved_inv.py lines 221-237 *)
csi_sch_params(p, seg_p, seg_n) ==
    [seg_p |-> seg_p, seg_n |-> seg_n, lch |-> p.pinfo.lch,
     w_p |-> IF p.w_p = 0 THEN p.pinfo.w_p ELSE p.w_p,
     w_n |-> IF p.w_n = 0 THEN p.pinfo.w_n ELSE p.w_n,
     th_n |-> p.pinfo.th_n, th_p |-> p.pinfo.th_p,
     stack_p |-> p.stack_p, stack_n |-> p.stack_n]

(* CurrentStarvedInvCore.draw_layout: the template when the method ends *)
CurrentStarvedInvCore_layout(p) ==
    LET seg_p == eff_seg(p.seg_p, p.seg_inv)
        seg_n == eff_seg(p.seg_n, p.seg_inv)
        hm_layer == p.pinfo.conn_layer + 1
        vm_layer == hm_layer + 1
    IN  IF invalid_segments(seg_p, seg_n)
        THEN [EmptyLayout EXCEPT !.err = Exception("ValueError", "Invalid segments.")]
        ELSE IF top_layer_too_low(p.pinfo.top_layer, p.pinfo.conn_layer)
        THEN [EmptyLayout EXCEPT !.err =
                 Exception("ValueError", "MOSBasePlaceInfo top layer must be at least "
                                         \o ToString(vm_layer))]
        ELSE LET is_guarded == p.is_guarded \/ (p.pinfo.flip_n = p.pinfo.flip_p)
                 blocks == csi_placement(p, seg_p, seg_n)
                 out == csi_route_out(p, hm_layer, vm_layer)
                 inp == csi_route_in(p, is_guarded, out.vm_tidx, hm_layer, vm_layer)
                 mir == csi_route_mirror(out.vm_tidx, p.pinfo, hm_layer, vm_layer)
                 routed == [EmptyLayout EXCEPT
                               !.placed = blocks,
                               !.mos_size = Assigned(used_cols(blocks)),
                               !.wires = out.wires \cup inp.wires \cup mir.wires,
                               !.pins = out.pins \cup inp.pins \cup mir.pins]
             IN  IF vertical_sup_given(p.vertical_sup)
                 THEN [routed EXCEPT
                          !.pins = @ \cup csi_supply_pins(p.pinfo.conn_layer),
                          !.sch_params = Assigned(csi_sch_params(p, seg_p, seg_n))]
                 ELSE [routed EXCEPT !.err =
                          Exception("NotImplementedError",
                                    "Current-starved inverters currently do not support horizontal supply rails.")]

Finish_mut(L) ==
    /\ err' = L.err
    /\ placed' = L.placed
    /\ wires' = L.wires
    /\ pins' = L.pins
    /\ mos_size' = L.mos_size
    /\ sch_params' = L.sch_params
    /\ status' = IF L.err = NoError THEN "done" ELSE "raised"
    /\ params' = IF "sep_vert_in" \in DOMAIN params
                  THEN [params EXCEPT !.sep_vert_in = @ /\ params.vertical_in]
                  ELSE [params EXCEPT !.seg_p = eff_seg(@, params.seg_inv),
                                      !.seg_n = eff_seg(@, params.seg_inv)]
    /\ UNCHANGED <<cls, instances>>

(* the object takes over what draw_layout left in the template; the        *)
(* methods rebind local names only (current_starved_inv.py lines 106-109,  *)
(* 121; inv_diff.py lines 67, 246; inv_diff_chain.py line 71), self.params *)
(* is not assigned                                                         *)
Finish(L) ==
    /\ err' = L.err
    /\ placed' = L.placed
    /\ wires' = L.wires
    /\ pins' = L.pins
    /\ mos_size' = L.mos_size
    /\ sch_params' = L.sch_params
    /\ status' = IF L.err = NoError THEN "done" ELSE "raised"
    /\ UNCHANGED <<cls, params, instances>>

(* CurrentStarvedInvCore.draw_layout *)
CurrentStarvedInvCore_draw_layout ==
    /\ cls = "CurrentStarvedInvCore"
    /\ status = "new"
    /\ Finish(CurrentStarvedInvCore_layout(params))

(* ---- layout: InvCore (gates.py), as its callers use it ---- *)

(* InvCore master generated by new_template: 'nin' is a horizontal wire on *)
(* the track given in sig_locs, outputs stay horizontal (vertical_out is   *)
(* False), num_cols is the segment count                                   *)
InvCore_layout(p) ==
    LET hm_layer == p.pinfo.conn_layer + 1
    IN  [EmptyLayout EXCEPT
            !.placed = << Block("mos", "nmos", "ridx_n", 0, p.seg, 1, FALSE),
                          Block("mos", "pmos", "ridx_p", 0, p.seg, 1, FALSE) >>,
            !.mos_size = Assigned(p.seg),
            !.pins = {Pin("nin", {"nin"}, hm_layer, FALSE),
                      Pin("pout", {"pout"}, hm_layer, FALSE),
                      Pin("nout", {"nout"}, hm_layer, FALSE),
                      Pin("VDD", {"VDD"}, hm_layer, FALSE),
                      Pin("VSS", {"VSS"}, hm_layer, FALSE)},
            !.wires = {Wire("nin", hm_layer, p.sig_locs["nin"], {"nports.g", "pports.g"})},
            !.sch_params = Assigned([seg |-> p.seg])]

(* ---- layout: InvDiffCore and CurrentStarvedInvDiffCore ---- *)

(* master.num_cols *)
num_cols(master) == master.mos_size[1]

(* Python int(bool) in blk_sp * sep_vert_out *)
BoolInt(b) == IF b THEN 1 ELSE 0

(* inv_diff.py lines 66-67 (and 245-246): sep_vert_in and vertical_in *)
eff_sep_vert_in(sep_vert_in, vertical_in) == sep_vert_in /\ vertical_in

(* inv_diff.py lines 78-81: keeper inverter master *)
inv_kp_master(p) ==
    InvCore_layout([pinfo |-> p.pinfo, seg |-> p.seg_kp, vertical_out |-> FALSE,
                    sig_locs |-> ("nin" :> get_track_index("ridx_p", "G", 0))])

(* inv_diff.py lines 85-88: input inverter master of InvDiffCore *)
inv_drv_master(p) ==
    InvCore_layout([pinfo |-> p.pinfo, seg |-> p.seg_drv, vertical_out |-> FALSE,
                    sig_locs |-> ("nin" :> get_track_index("ridx_n", "G", 1))])

(* inv_diff.py lines 268-269: input inverter master of                     *)
(* CurrentStarvedInvDiffCore; unnamed parameters take their defaults       *)
cs_inv_drv_master(p) ==
    CurrentStarvedInvCore_layout(
        [pinfo |-> p.pinfo, seg_inv |-> p.seg_drv, seg_mir |-> p.seg_mir]
        @@ csi_default_param_values)

diff_final_col_mut(cur_col, blk_sp, sep_vert_out) == cur_col

(* inv_diff.py line 101 (and 291): cur_col += blk_sp * sep_vert_out *)
diff_final_col(cur_col, blk_sp, sep_vert_out) ==
    cur_col + blk_sp * BoolInt(sep_vert_out)

(* inv_diff.py lines 92-102 (and 283-293): the four inverter tiles and the *)
(* cell size; tile_lo, tile_hi are the two tile rows (0,1 resp. 1,3)       *)
diff_placement(p, sep_vert_in, drv_ncols, kp_ncols, tile_lo, tile_hi) ==
    LET blk_sp == p.pinfo.min_sep_col
        col_in == IF sep_vert_in THEN blk_sp ELSE 0
        col_fb == col_in + drv_ncols + blk_sp + kp_ncols
    IN  [placed |-> << Block("tile", "inv_drv", tile_lo, col_in, p.seg_drv, 1, FALSE),
                       Block("tile", "inv_drv", tile_hi, col_in, p.seg_drv, 1, FALSE),
                       Block("tile", "inv_kp", tile_lo, col_fb, p.seg_kp, 1, TRUE),
                       Block("tile", "inv_kp", tile_hi, col_fb, p.seg_kp, 1, TRUE) >>,
         mos_size |-> Assigned(diff_final_col(col_fb, blk_sp, p.sep_vert_out))]

(* inv_diff.py lines 106-111: supplies of InvDiffCore *)
diff_supplies(hm_layer) ==
    [wires |-> {Wire("vdd", hm_layer, Track("VDD", 0),
                     {"inv_in.VDD", "inv_inb.VDD", "inv_fb0.VDD", "inv_fb1.VDD"}),
                Wire("vss", hm_layer, Track("VSS", 0),
                     {"inv_in.VSS", "inv_inb.VSS", "inv_fb0.VSS", "inv_fb1.VSS"})},
     pins |-> {Pin("VDD", {"vdd"}, hm_layer, FALSE), Pin("VSS", {"vss"}, hm_layer, FALSE)}]

(* inv_diff.py lines 279-281: tap rows of CurrentStarvedInvDiffCore, on the *)
(* default tap tiles ptap_tile_idx = [0, 4], ntap_tile_idx = 2              *)
cs_diff_taps(total_cols) ==
    << Block("tap", "ptap", 0, 0, total_cols, 1, FALSE),
       Block("tap", "ntap", 2, 0, total_cols, 1, FALSE),
       Block("tap", "ptap", 4, 0, total_cols, 1, FALSE) >>

(* inv_diff.py lines 297-318: supplies of CurrentStarvedInvDiffCore *)
cs_diff_supplies(hm_layer, conn_layer) ==
    [wires |-> {Wire("vss_top_tie", conn_layer, Track("tie", 4),
                     {"inv_inb.VSS", "inv_fb1.VSS", "vss_top_ports"}),
                Wire("vss_bot_tie", conn_layer, Track("tie", 0),
                     {"inv_in.VSS", "inv_fb0.VSS", "vss_bot_ports"}),
                Wire("vdd_tie", conn_layer, Track("tie", 2),
                     {"inv_in.VDD", "inv_inb.VDD", "inv_fb0.VDD", "inv_fb1.VDD",
                      "vdd_ports"}),
                Wire("vdd", hm_layer, Track("sup@ntap", 2), {"vdd_tie"}),
                Wire("vss_top", hm_layer, Track("sup@ptap", 4), {"vss_top_tie"}),
                Wire("vss_bot", hm_layer, Track("sup@ptap", 0), {"vss_bot_tie"})},
     pins |-> {Pin("VDD", {"vdd"}, hm_layer, FALSE),
               Pin("VSS", {"vss_top", "vss_bot"}, hm_layer, FALSE)}]

(* inv_diff.py lines 118-138 (and 325-347): input pins; ref_v is True for  *)
(* CurrentStarvedInvDiffCore, which also re-exports 'ref_v' as 'rev_v'     *)
diff_inputs(vertical_in, sep_vert_in, drv, vm_layer, ref_v) ==
    IF vertical_in
    THEN LET tidx0 == IF sep_vert_in THEN Track("place_wires(nin.lower)", 0)
                                     ELSE Track("place_wires(nin.lower)", 1)
             tidx1 == Track("place_wires(nin.lower)", 1)
         IN  [wires |-> {Wire("in_vm", vm_layer, tidx0, {"inv_in.nin"}),
                         Wire("inb_vm", vm_layer, tidx1, {"inv_inb.nin"})},
              pins |-> {Pin("in", {"in_vm"}, vm_layer, FALSE),
                        Pin("inb", {"inb_vm"}, vm_layer, FALSE)}]
    ELSE [wires |-> {},
          pins |-> {Pin("in", {"inv_in.nin"}, get_pin(drv, "nin").layer, FALSE),
                    Pin("inb", {"inv_inb.nin"}, get_pin(drv, "nin").layer, FALSE)}
                   \cup (IF ref_v
                         THEN {Pin("rev_v", {"inv_in.ref_v"}, get_pin(drv, "ref_v").layer, FALSE),
                               Pin("rev_v", {"inv_inb.ref_v"}, get_pin(drv, "ref_v").layer, FALSE)}
                         ELSE {})]

sep_vert_out_given_mut(sep_vert_out) == FALSE

(* inv_diff.py line 144 (and 354) *)
sep_vert_out_given(sep_vert_out) == sep_vert_out

(* inv_diff.py lines 148-177 (and 358-387): mid/midb and the output pins *)
diff_outputs(drv, hm_layer, vm_layer) ==
    [wires |-> {Wire("mid", vm_layer, Track("place_wires(nin.upper)", 1),
                     {"inv_in.pout", "inv_in.nout", "inv_fb0.pout", "inv_fb0.nout",
                      "inv_fb1.nin"}),
                Wire("midb", vm_layer, Track("place_wires(nin.upper)", -2),
                     {"inv_inb.pout", "inv_inb.nout", "inv_fb1.pout", "inv_fb1.nout",
                      "inv_fb0.nin"}),
                Wire("out_hm", get_pin(drv, "nin").layer, Track("inv_in.nin", 0), {"mid"}),
                Wire("outb_hm", get_pin(drv, "nin").layer, Track("inv_inb.nin", 0), {"midb"})},
     pins |-> {Pin("out", {"out_hm"}, get_pin(drv, "nin").layer, FALSE),
               Pin("outb", {"outb_hm"}, get_pin(drv, "nin").layer, FALSE)}]

(* inv_diff.py lines 180-183 (and 390-393) *)
diff_sch_params(drv, kp) ==
    [inv_in |-> drv.sch_params[1], inv_fb |-> kp.sch_params[1]]

(* the part common to both draw_layout methods once the masters exist:     *)
(* inv_diff.py lines 91-183 resp. 274-393                                  *)
diff_body(p, drv, kp, taps, sup, tile_lo, tile_hi, ref_v) ==
    LET hm_layer == p.pinfo.conn_layer + 1
        vm_layer == hm_layer + 1
        sep_vert_in == eff_sep_vert_in(p.sep_vert_in, p.vertical_in)
        place == diff_placement(p, sep_vert_in, num_cols(drv), num_cols(kp),
                                tile_lo, tile_hi)
        inp == diff_inputs(p.vertical_in, sep_vert_in, drv, vm_layer, ref_v)
        routed == [EmptyLayout EXCEPT
                      !.placed = taps \o place.placed,
                      !.mos_size = place.mos_size,
                      !.wires = sup.wires \cup inp.wires,
                      !.pins = sup.pins \cup inp.pins]
    IN  IF sep_vert_out_given(p.sep_vert_out)
        THEN [routed EXCEPT !.err = Exception("NotImplementedError", "Not implemented yet.")]
        ELSE LET out == diff_outputs(drv, hm_layer, vm_layer)
             IN  [routed EXCEPT
                     !.wires = @ \cup out.wires,
                     !.pins = @ \cup out.pins,
                     !.sch_params = Assigned(diff_sch_params(drv, kp))]

(* InvDiffCore.draw_layout: the template when the method ends *)
InvDiffCore_layout(p) ==
    LET kp == inv_kp_master(p)
        drv == inv_drv_master(p)
    IN  diff_body(p, drv, kp, <<>>, diff_supplies(p.pinfo.conn_layer + 1), 0, 1, FALSE)

(* CurrentStarvedInvDiffCore.draw_layout: the template when the method     *)
(* ends; an exception raised while the driver master is generated (line    *)
(* 269) leaves the method before anything is placed                        *)
CurrentStarvedInvDiffCore_layout(p) ==
    LET kp == inv_kp_master(p)
        drv == cs_inv_drv_master(p)
    IN  IF drv.err # NoError
        THEN [EmptyLayout EXCEPT !.err = drv.err]
        ELSE diff_body(p, drv, kp,
                       cs_diff_taps(num_cols(drv) + num_cols(kp) + p.pinfo.min_sep_col),
                       cs_diff_supplies(p.pinfo.conn_layer + 1, p.pinfo.conn_layer),
                       1, 3, TRUE)

(* InvDiffCore.draw_layout *)
InvDiffCore_draw_layout ==
    /\ cls = "InvDiffCore"
    /\ status = "new"
    /\ Finish(InvDiffCore_layout(params))

(* CurrentStarvedInvDiffCore.draw_layout *)
CurrentStarvedInvDiffCore_draw_layout ==
    /\ cls = "CurrentStarvedInvDiffCore"
    /\ status = "new"
    /\ Finish(CurrentStarvedInvDiffCore_layout(params))

(* ---- layout: InvDiffChain ---- *)

(* inv_diff_chain.py lines 80-90: parameters of the stage master *)
inv_diff_params(p) ==
    [pinfo |-> p.pinfo, seg_kp |-> p.seg_kp, seg_drv |-> p.seg_drv,
     vertical_in |-> FALSE, sep_vert_in |-> FALSE, sep_vert_out |-> FALSE]

(* name of a pin of the placed stage drivers[i] *)
DrvPin(i, name) == "drivers[" \o ToString(i) \o "]." \o name

(* inv_diff_chain.py lines 94-102: one stage per loop round *)
chain_placement(length, col0, drv_size, blk_sp) ==
    LET r == range(0, length)
    IN  [k \in DOMAIN r |->
            Block("tile", "inv_diff", 0, col0 + r[k] * (drv_size + blk_sp), 1, 1, FALSE)]

chain_links_mut(length) == range(1, length - 1)

(* inv_diff_chain.py line 117: the stages that get linked to their predecessor *)
chain_links(length) == range(1, length)

(* inv_diff_chain.py lines 118-124: the two wires made for stage i *)
chain_node(i, layer) ==
    {Wire("node[" \o ToString(i) \o "]", layer, Track(DrvPin(i, "in"), 0),
          {DrvPin(i, "in"), DrvPin(i - 1, "out")}),
     Wire("node_b[" \o ToString(i) \o "]", layer, Track(DrvPin(i, "inb"), 0),
          {DrvPin(i, "inb"), DrvPin(i - 1, "outb")})}

chain_node_pins_mut(links, label_nodes, layer) ==
    {Pin("node<" \o ToString(links[k]) \o ">",
         {"node[" \o ToString(links[k]) \o "]"}, layer, FALSE) : k \in DOMAIN links}

(* inv_diff_chain.py lines 125-126 *)
chain_node_pins(links, label_nodes, layer) ==
    IF label_nodes
    THEN {Pin("node<" \o ToString(links[k]) \o ">",
              {"node[" \o ToString(links[k]) \o "]"}, layer, FALSE) : k \in DOMAIN links}
    ELSE {}

(* inv_diff_chain.py lines 129-132: drivers[0] and drivers[-1] *)
chain_io_pins(master, length) ==
    {Pin("in", {DrvPin(0, "in")}, get_pin(master, "in").layer, FALSE),
     Pin("inb", {DrvPin(0, "inb")}, get_pin(master, "inb").layer, FALSE),
     Pin("out", {DrvPin(length - 1, "out")}, get_pin(master, "out").layer, FALSE),
     Pin("outb", {DrvPin(length - 1, "outb")}, get_pin(master, "outb").layer, FALSE)}

(* InvDiffChain.draw_layout: the template when the method ends.  With no   *)
(* stage, connect_wires of an empty list returns an empty list and its     *)
(* element 0 (line 110) raises IndexError                                  *)
InvDiffChain_layout(p) ==
    LET master == InvDiffCore_layout(inv_diff_params(p))
        hm_layer == p.pinfo.conn_layer + 1
        sep_vert_in == eff_sep_vert_in(p.sep_vert_in, p.vertical_in)
        blk_sp == p.pinfo.min_sep_col
        col0 == IF sep_vert_in THEN blk_sp ELSE 0
    IN  IF master.err # NoError
        THEN [EmptyLayout EXCEPT !.err = master.err]
        ELSE LET drv_size == num_cols(master)
                 drivers == chain_placement(p.length, col0, drv_size, blk_sp)
                 sized == [EmptyLayout EXCEPT
                              !.placed = drivers,
                              !.mos_size = Assigned(col0 + Len(drivers) * (drv_size + blk_sp))]
             IN  IF Len(drivers) = 0
                 THEN [sized EXCEPT !.err = Exception("IndexError", "list index out of range")]
                 ELSE LET links == chain_links(p.length)
                          layer == get_pin(master, "in").layer
                          sup == {Wire("vdd", hm_layer, Track("VDD", 0),
                                       {DrvPin(i, "VDD") : i \in 0..(Len(drivers) - 1)}),
                                  Wire("vss", hm_layer, Track("VSS", 0),
                                       {DrvPin(i, "VSS") : i \in 0..(Len(drivers) - 1)})}
                      IN  [sized EXCEPT
                              !.wires = sup \cup
                                        UNION {chain_node(links[k], layer) : k \in DOMAIN links},
                              !.pins = {Pin("VDD", {"vdd"}, hm_layer, FALSE),
                                        Pin("VSS", {"vss"}, hm_layer, FALSE)}
                                       \cup chain_node_pins(links, p.label_nodes, layer)
                                       \cup chain_io_pins(master, Len(drivers)),
                              !.sch_params = Assigned(
                                  [inv_diff |-> master.sch_params[1],
                                   length |-> p.length,
                                   label_nodes |-> p.label_nodes])]

(* InvDiffChain.draw_layout *)
InvDiffChain_draw_layout ==
    /\ cls = "InvDiffChain"
    /\ status = "new"
    /\ Finish(InvDiffChain_layout(params))

(* ---- construction ---- *)

(* MOSBasePlaceInfo as far as the generators read it *)
PInfos ==
    [conn_layer : {1}, top_layer : 2..MaxTopLayer,
     flip_n : BOOLEAN, flip_p : BOOLEAN, min_sep_col : 1..MaxSepCol,
     lch : {18}, w_p : {4}, w_n : {4}, th_n : {"standard"}, th_p : {"standard"}]

Segs == -1..MaxSeg

SigLocKeys == {"in", "nin", "pin"}

SigLocs ==
    UNION {[K -> {None} \cup {UserTrack(n) : n \in 0..MaxTrack}] : K \in SUBSET SigLocKeys}

CurrentStarvedInvCore_params ==
    [pinfo : {pi \in PInfos : pi.min_sep_col = 1},
     seg_inv : Segs, seg_mir : {1}, seg_p : Segs, seg_n : Segs,
     stack_p : {1}, stack_n : {1}, w_p : {0}, w_n : {0},
     is_guarded : BOOLEAN, sig_locs : SigLocs, vertical_out : BOOLEAN,
     vertical_sup : BOOLEAN, vertical_in : BOOLEAN]

des_1toN_params ==
    [des_ratio : (-MaxNegDesRatio)..MaxDesRatio, export_nets : BOOLEAN]

(* segment counts handed on to InvCore are positive *)
PosSegs == 1..MaxSeg

InvDiffCore_params ==
    [pinfo : PInfos, seg_drv : PosSegs, seg_kp : PosSegs,
     vertical_in : BOOLEAN, sep_vert_in : BOOLEAN, sep_vert_out : BOOLEAN]

CurrentStarvedInvDiffCore_params ==
    [pinfo : PInfos, seg_drv : Segs, seg_mir : {1}, seg_kp : PosSegs,
     vertical_in : BOOLEAN, sep_vert_in : BOOLEAN, sep_vert_out : BOOLEAN]

InvDiffChain_params ==
    [pinfo : PInfos, seg_drv : PosSegs, seg_kp : PosSegs, length : 0..MaxLength,
     label_nodes : BOOLEAN, vertical_in : BOOLEAN, sep_vert_in : BOOLEAN,
     sep_vert_out : BOOLEAN]

InitLayout ==
    /\ \/ /\ cls = "CurrentStarvedInvCore"
          /\ params \in CurrentStarvedInvCore_params
       \/ /\ cls = "InvDiffCore"
          /\ params \in InvDiffCore_params
       \/ /\ cls = "CurrentStarvedInvDiffCore"
          /\ params \in CurrentStarvedInvDiffCore_params
       \/ /\ cls = "InvDiffChain"
          /\ params \in InvDiffChain_params
    /\ pins = {}
    /\ instances = <<>>

InitSchematic ==
    /\ cls = "des_1toN"
    /\ params \in des_1toN_params
    /\ pins = TemplatePins
    /\ instances = TemplateInstances

Init ==
    /\ (InitSchematic \/ InitLayout)
    /\ status = "new"
    /\ err = NoError
    /\ placed = <<>>
    /\ wires = {}
    /\ mos_size = Unset
    /\ sch_params = Unset

Next ==
    \/ des_1toN_design
    \/ CurrentStarvedInvCore_draw_layout
    \/ InvDiffCore_draw_layout
    \/ CurrentStarvedInvDiffCore_draw_layout
    \/ InvDiffChain_draw_layout

Spec == Init /\ [][Next]_vars

(* ---- claims about bag3_digital__des_1toN.design ---- *)

DesRan == cls = "des_1toN" /\ status # "new"

FFNames(N) == {"XFF" \o ToString(i) : i \in 0..(N - 1)}
FSNames(N) == {"XFS" \o ToString(i) : i \in 0..(N - 1)}
PinNames == {p.name : p \in pins}

(* C1: design raises ValueError exactly when des_ratio < 2 (also for 1, 0  *)
(* and negative values); in a run that raises, pin 'dout' is not renamed,  *)
(* XFF and XFS are not arrayed and no pin has been added.                  *)
C1_RaisesIffRatioBelow2 ==
    DesRan =>
        /\ (status = "raised" /\ err.type = "ValueError") <=> (params.des_ratio < 2)
        /\ (status = "done") <=> (params.des_ratio >= 2)
        /\ status = "raised" =>
              /\ pins = TemplatePins
              /\ DOMAIN instances = DOMAIN TemplateInstances

C1_Witness ==
    DesRan /\ status = "raised" /\ params.des_ratio = 1

(* C2: for des_ratio = N >= 2, pin 'dout' is renamed to 'dout<N-1:0>' and  *)
(* XFF, XFS are each arrayed into exactly N instances XFF0..XFF(N-1),      *)
(* XFS0..XFS(N-1).                                                         *)
C2_ArrayedIntoN ==
    (DesRan /\ params.des_ratio >= 2) =>
        LET N == params.des_ratio
        IN  /\ "dout" \notin PinNames
            /\ ("dout<" \o ToString(N - 1) \o ":0>") \in PinNames
            /\ DOMAIN instances = {"XINVC", "XINVD"} \cup FFNames(N) \cup FSNames(N)
            /\ Cardinality(DOMAIN instances \cap FFNames(N)) = N
            /\ Cardinality(DOMAIN instances \cap FSNames(N)) = N
            /\ FFNames(N) \cap FSNames(N) = {}

C2_Witness ==
    DesRan /\ status = "done" /\ params.des_ratio = 3

(* C3: after design with N >= 2, XFF{idx} has out = 'd<idx>' and in =      *)
(* 'din' for idx = 0, else 'd<idx-1>'; XFS{idx} has in = 'd<idx>' and      *)
(* out = 'dout<idx>'; every d<i> is driven by exactly one fast flop and    *)
(* every dout<i> by exactly one slow flop.                                 *)
C3_ShiftChain ==
    (DesRan /\ params.des_ratio >= 2) =>
        LET N == params.des_ratio
            dnet(i) == "d<" \o ToString(i) \o ">"
            doutnet(i) == "dout<" \o ToString(i) \o ">"
            ff(i) == instances["XFF" \o ToString(i)].conns
            fs(i) == instances["XFS" \o ToString(i)].conns
        IN  /\ \A idx \in 0..(N - 1) :
                  /\ ff(idx).out = dnet(idx)
                  /\ ff(idx).in = (IF idx = 0 THEN "din" ELSE dnet(idx - 1))
                  /\ fs(idx).in = dnet(idx)
                  /\ fs(idx).out = doutnet(idx)
            /\ \A i \in 0..(N - 1) :
                  /\ Cardinality({n \in FFNames(N) : instances[n].conns.out = dnet(i)}) = 1
                  /\ Cardinality({n \in FSNames(N) : instances[n].conns.out = doutnet(i)}) = 1
                  /\ \A n \in FSNames(N) : instances[n].conns.out # dnet(i)
                  /\ \A n \in FFNames(N) : instances[n].conns.out # doutnet(i)

C3_Witness ==
    DesRan /\ status = "done" /\ params.des_ratio = 4
        /\ instances["XFF3"].conns.in = "d<2>"

(* C4: with N >= 2 the output pins 'd<N-1:0>', 'clkb' and 'clk_divb' are   *)
(* added iff export_nets; with export_nets False no pin is added; in both  *)
(* cases the fast flops have clkb = 'clkb' and the slow flops clkb =       *)
(* 'clk_divb'.                                                             *)
C4_ExportNets ==
    (DesRan /\ params.des_ratio >= 2) =>
        LET N == params.des_ratio
            renamed == rename_pin(TemplatePins, "dout", "dout<" \o ToString(N - 1) \o ":0>")
            added == pins \ renamed
        IN  /\ renamed \subseteq pins
            /\ params.export_nets =>
                  added = {[name |-> n, type |-> "output"] :
                              n \in {"d<" \o ToString(N - 1) \o ":0>", "clkb", "clk_divb"}}
            /\ ~params.export_nets => added = {}
            /\ Cardinality(added) = (IF params.export_nets THEN 3 ELSE 0)
            /\ \A n \in FFNames(N) : instances[n].conns.clkb = "clkb"
            /\ \A n \in FSNames(N) : instances[n].conns.clkb = "clk_divb"

C4_Witness ==
    DesRan /\ status = "done" /\ params.export_nets
        /\ [name |-> "clk_divb", type |-> "output"] \in pins

(* ---- claims about CurrentStarvedInvCore.draw_layout ---- *)

CsiRan == cls = "CurrentStarvedInvCore" /\ status # "new"

PinsNamed(name) == {p \in pins : p.name = name}

(* C5: the effective seg_p is seg_p when seg_p > 0 and seg_inv otherwise,  *)
(* likewise seg_n; ValueError('Invalid segments.') is raised exactly when  *)
(* an effective value is <= 0 (so all defaults -1 are rejected) and the    *)
(* effective, positive values are what sch_params stores.                  *)
C5_EffectiveSegments ==
    CsiRan =>
        LET esp == IF params.seg_p > 0 THEN params.seg_p ELSE params.seg_inv
            esn == IF params.seg_n > 0 THEN params.seg_n ELSE params.seg_inv
        IN  /\ (err = Exception("ValueError", "Invalid segments.")) <=> (esp <= 0 \/ esn <= 0)
            /\ (params.seg_inv = -1 /\ params.seg_p = -1 /\ params.seg_n = -1)
                  => (status = "raised" /\ err.type = "ValueError")
            /\ sch_params # Unset =>
                  /\ sch_params[1].seg_p = esp
                  /\ sch_params[1].seg_n = esn
                  /\ sch_params[1].seg_p > 0
                  /\ sch_params[1].seg_n > 0

C5_Witness ==
    /\ CsiRan /\ status = "done"
    /\ params.seg_p <= 0 /\ params.seg_n <= 0 /\ params.seg_inv > 0
    /\ sch_params # Unset /\ sch_params[1].seg_p = params.seg_inv

(* C6: ValueError is raised when the top layer is below conn_layer + 2,    *)
(* and in every run that raises ValueError nothing has been placed, no     *)
(* wire connected and no pin added.                                        *)
C6_ChecksPrecedePlacement ==
    CsiRan =>
        /\ (params.pinfo.top_layer < params.pinfo.conn_layer + 2)
              => (status = "raised" /\ err.type = "ValueError")
        /\ err.type = "ValueError" =>
              /\ status = "raised"
              /\ placed = <<>>
              /\ wires = {}
              /\ pins = {}
              /\ mos_size = Unset

C6_Witness ==
    /\ CsiRan /\ status = "raised"
    /\ params.seg_inv > 0
    /\ params.pinfo.top_layer = params.pinfo.conn_layer + 1
    /\ err.type = "ValueError" /\ err.msg # "Invalid segments."

(* C7: given the earlier checks pass, NotImplementedError is raised        *)
(* exactly when vertical_sup is False; with vertical_sup True pin 'VDD' is *)
(* the pmos source and 'VSS' the mirror nmos source; in a run that raises  *)
(* NotImplementedError 'VDD' and 'VSS' are not added and sch_params is not *)
(* set, while the transistors are placed and 'in', 'out', 'ref_v' added.   *)
C7_VerticalSupply ==
    (CsiRan /\ err.type # "ValueError") =>
        /\ (status = "raised" /\ err.type = "NotImplementedError") <=> ~params.vertical_sup
        /\ params.vertical_sup =>
              /\ status = "done"
              /\ PinsNamed("VDD") = {Pin("VDD", {"pports.s"}, params.pinfo.conn_layer, FALSE)}
              /\ PinsNamed("VSS") = {Pin("VSS", {"nports_mir.s"}, params.pinfo.conn_layer, FALSE)}
        /\ err.type = "NotImplementedError" =>
              /\ PinsNamed("VDD") = {} /\ PinsNamed("VSS") = {}
              /\ sch_params = Unset
              /\ Len(placed) = 3
              /\ \A k \in 1..3 : placed[k].kind = "mos"
              /\ PinsNamed("in") # {} /\ PinsNamed("out") # {} /\ PinsNamed("ref_v") # {}

C7_Witness ==
    /\ CsiRan /\ status = "raised" /\ err.type = "NotImplementedError"
    /\ ~params.vertical_sup /\ Len(placed) = 3

(* ---- claims about InvDiffCore / CurrentStarvedInvDiffCore ---- *)

DiffRan == cls \in {"InvDiffCore", "CurrentStarvedInvDiffCore"} /\ status # "new"

TilesPlaced == {k \in DOMAIN placed : placed[k].kind = "tile"}

(* what the claim says of a run that raised NotImplementedError: 'out' and *)
(* 'outb' not added, sch_params not set, the four inverter instances       *)
(* placed, the size set with the extra blk_sp columns behind the keeper    *)
(* tiles, supply and input pins added                                      *)
DiffRaisedState ==
    /\ PinsNamed("out") = {} /\ PinsNamed("outb") = {}
    /\ sch_params = Unset
    /\ Cardinality(TilesPlaced) = 4
    /\ Cardinality({k \in TilesPlaced : placed[k].master = "inv_drv"}) = 2
    /\ Cardinality({k \in TilesPlaced : placed[k].master = "inv_kp"}) = 2
    /\ mos_size # Unset
    /\ \A k \in TilesPlaced : placed[k].master = "inv_kp" =>
           mos_size[1] = placed[k].col + params.pinfo.min_sep_col
    /\ PinsNamed("VDD") # {} /\ PinsNamed("VSS") # {}
    /\ PinsNamed("in") # {} /\ PinsNamed("inb") # {}

(* the driver master of CurrentStarvedInvDiffCore is generated without an  *)
(* exception: seg_drv > 0 and the top layer reaches the vertical layer     *)
DiffMastersGenerated ==
    cls = "CurrentStarvedInvDiffCore" =>
        /\ params.seg_drv > 0
        /\ params.pinfo.top_layer >= params.pinfo.conn_layer + 2

(* C8 as stated: both draw_layout methods raise NotImplementedError if and *)
(* only if sep_vert_out is True, whatever the other parameters are, and a  *)
(* raising run leaves the state described above.                           *)
C8_Original ==
    DiffRan =>
        /\ (status = "raised" /\ err.type = "NotImplementedError") <=> params.sep_vert_out
        /\ err.type = "NotImplementedError" => DiffRaisedState

(* C8 amended: both draw_layout methods raise NotImplementedError if and   *)
(* only if sep_vert_out is True and their inverter masters were generated  *)
(* without an exception; when the driver master of                         *)
(* CurrentStarvedInvDiffCore is rejected (seg_drv <= 0 or top layer below  *)
(* conn_layer + 2) its ValueError leaves draw_layout before anything is    *)
(* placed; a run that raises NotImplementedError leaves the state          *)
(* described above.                                                        *)
C8_NotImplementedIffSepVertOut ==
    DiffRan =>
        /\ (status = "raised" /\ err.type = "NotImplementedError")
              <=> (params.sep_vert_out /\ DiffMastersGenerated)
        /\ ~DiffMastersGenerated =>
              /\ status = "raised" /\ err.type = "ValueError"
              /\ placed = <<>> /\ pins = {} /\ wires = {} /\ mos_size = Unset
        /\ (DiffMastersGenerated /\ ~params.sep_vert_out) =>
              /\ status = "done"
              /\ PinsNamed("out") # {} /\ PinsNamed("outb") # {}
              /\ sch_params # Unset
        /\ err.type = "NotImplementedError" => DiffRaisedState

C8_Witness ==
    /\ DiffRan /\ cls = "CurrentStarvedInvDiffCore"
    /\ status = "raised" /\ err.type = "NotImplementedError"
    /\ params.sep_vert_out /\ params.sep_vert_in /\ params.vertical_in
    /\ Cardinality(TilesPlaced) = 4

(* ---- claims about InvDiffChain.draw_layout ---- *)

ChainRan == cls = "InvDiffChain" /\ status # "new"

(* wires that join an input of one stage to any pin of another stage *)
ChainLinks(inname) ==
    {w \in wires : \E i \in 0..params.length : DrvPin(i, inname) \in w.src}

(* C9: for every length L >= 1 exactly L stages are placed; for every i in *)
(* 1..L-1 stage i's 'in' is connected to stage i-1's 'out' and its 'inb'   *)
(* to stage i-1's 'outb' (exactly L-1 links of each kind); 'in'/'inb' are  *)
(* those of stage 0, 'out'/'outb' those of stage L-1; sch_params.length =  *)
(* L.                                                                      *)
C9_ChainOfLength ==
    (ChainRan /\ params.length >= 1) =>
        LET L == params.length
        IN  /\ status = "done"
            /\ Len(placed) = L
            /\ \A k \in 1..L : placed[k].kind = "tile" /\ placed[k].master = "inv_diff"
            /\ \A i \in 1..(L - 1) :
                  /\ \E w \in wires : w.src = {DrvPin(i, "in"), DrvPin(i - 1, "out")}
                  /\ \E w \in wires : w.src = {DrvPin(i, "inb"), DrvPin(i - 1, "outb")}
            /\ Cardinality(ChainLinks("in")) = L - 1
            /\ Cardinality(ChainLinks("inb")) = L - 1
            /\ \A w \in ChainLinks("in") :
                  \E i \in 1..(L - 1) : w.src = {DrvPin(i, "in"), DrvPin(i - 1, "out")}
            /\ \A w \in ChainLinks("inb") :
                  \E i \in 1..(L - 1) : w.src = {DrvPin(i, "inb"), DrvPin(i - 1, "outb")}
            /\ {p.warr : p \in PinsNamed("in")} = {{DrvPin(0, "in")}}
            /\ {p.warr : p \in PinsNamed("inb")} = {{DrvPin(0, "inb")}}
            /\ {p.warr : p \in PinsNamed("out")} = {{DrvPin(L - 1, "out")}}
            /\ {p.warr : p \in PinsNamed("outb")} = {{DrvPin(L - 1, "outb")}}
            /\ sch_params # Unset /\ sch_params[1].length = L

C9_Witness ==
    /\ ChainRan /\ status = "done" /\ params.length = 3
    /\ Cardinality(ChainLinks("in")) = 2

(* C10: when vertical_in is True the chain's 'in' and 'inb' pins are on    *)
(* the vertical layer (conn_layer + 2); when it is False they are the      *)
(* stages' horizontal input wires (conn_layer + 1).                        *)
C10_VerticalIn ==
    (ChainRan /\ status = "done") =>
        \A p \in PinsNamed("in") \cup PinsNamed("inb") :
            p.layer = (IF params.vertical_in
                       THEN params.pinfo.conn_layer + 2
                       ELSE params.pinfo.conn_layer + 1)

(* C11: the pins 'node<i>' are added for exactly i = 1..length-1 when      *)
(* label_nodes is True, each being the connection between stage i-1's      *)
(* 'out' and stage i's 'in'; with label_nodes False no 'node<i>' pin is    *)
(* added; the other pins ('VDD','VSS','in','inb','out','outb') do not      *)
(* depend on label_nodes.                                                  *)
NodePinName(i) == "node<" \o ToString(i) \o ">"

IOPinNames == {"VDD", "VSS", "in", "inb", "out", "outb"}

C11_LabelNodes ==
    (ChainRan /\ status = "done") =>
        LET L == params.length
            node_pins == {p \in pins : p.name \notin IOPinNames}
            other == InvDiffChain_layout([params EXCEPT !.label_nodes = ~@])
        IN  /\ {p.name : p \in node_pins} =
                  (IF params.label_nodes THEN {NodePinName(i) : i \in 1..(L - 1)} ELSE {})
            /\ Cardinality(node_pins) = (IF params.label_nodes THEN L - 1 ELSE 0)
            /\ \A i \in 1..(L - 1) : \A p \in PinsNamed(NodePinName(i)) :
                  \E w \in wires :
                      /\ p.warr = {w.name}
                      /\ w.src = {DrvPin(i - 1, "out"), DrvPin(i, "in")}
            /\ {p.name : p \in pins \ node_pins} = IOPinNames
            /\ pins \ node_pins = {p \in other.pins : p.name \in IOPinNames}

C11_Witness ==
    /\ ChainRan /\ status = "done" /\ params.label_nodes /\ params.length = 3
    /\ PinsNamed(NodePinName(2)) # {} /\ PinsNamed(NodePinName(3)) = {}

(* ---- claims about all generators ---- *)

(* C12: no draw_layout or design method modifies its parameters: the       *)
(* parameters after generation equal the parameters before it, also when   *)
(* generation ends in an exception.                                        *)
C12_ParamsNeverWritten == [][params' = params]_vars

(* a run that ended in an exception after seg_p, seg_n were defaulted to   *)
(* seg_inv and is_guarded was forced by the row orientations               *)
C12_Witness ==
    /\ CsiRan /\ status = "raised" /\ err.type = "NotImplementedError"
    /\ params.seg_p <= 0 /\ params.seg_n <= 0 /\ params.seg_inv > 0
    /\ ~params.is_guarded /\ params.pinfo.flip_n = params.pinfo.flip_p
    /\ PinsNamed("in") = {Pin("in", {"in"}, params.pinfo.conn_layer + 2, FALSE)}

(* ---- claim about the input track of CurrentStarvedInvCore ---- *)

(* unguarded mode: is_guarded False and the two rows differently oriented *)
Unguarded == ~params.is_guarded /\ params.pinfo.flip_n # params.pinfo.flip_p

HasValue(key) == key \in DOMAIN params.sig_locs /\ params.sig_locs[key] # None

(* C13: in unguarded mode the track of the input wire is the sig_locs      *)
(* entry 'in', else 'nin', else 'pin', else the default gate track (wire   *)
(* index 0 of the inverter nmos row); an entry counts whenever its key is  *)
(* present with a non-None value, the value 0 included, and a              *)
(* lower-priority entry is never used when a higher-priority one counts.   *)
C13_InputTrackPriority ==
    (CsiRan /\ Unguarded /\ err.type # "ValueError") =>
        \E w \in wires :
            /\ w.name = "in_warr"
            /\ \A p \in PinsNamed("in") : p.warr = {w.name}
            /\ w.tidx = (IF HasValue("in") THEN params.sig_locs["in"]
                         ELSE IF HasValue("nin") THEN params.sig_locs["nin"]
                         ELSE IF HasValue("pin") THEN params.sig_locs["pin"]
                         ELSE Track("G@ridx_n_inv", 0))

====
